---- MODULE Spec2Model ----
(***************************************************************************)
(* A model of the Eventor API helper (src/eventor_api.py): the request     *)
(* client, _make_request and the get_... operations, and the seven record *)
(* extractors ..._to_dataframe plus extract_disciplines_from_events.       *)
(*                                                                         *)
(* The EventorAPI object itself holds only the credential; every call is   *)
(* synchronous.  The variables below record what one call did: the HTTP    *)
(* request it issued, what it logged, what it returned or raised, and the  *)
(* table an extractor produced.                                            *)
(***************************************************************************)
EXTENDS Integers, Sequences, FiniteSets, TLC

VARIABLES
    call,      \* the get_... operation called and its arguments, or NoOperation
    response,  \* the answer of the server to the GET of that call
    request,   \* the request of the last get_... call: [endpoint, params], or NoRequest
    gets,      \* how many times the last get_... call invoked requests.get
    log,       \* the records the last get_... call handed to logging.error
    result,    \* how the last get_... call ended: a returned value or a raised exception
    table,     \* how the extractor call on that result ended: a DataFrame or an exception
    previous   \* how the extractor call before that one ended, or NoTable

vars == <<call, response, request, gets, log, result, table, previous>>

(***************************************************************************)
(* Bounds of the model.                                                    *)
(***************************************************************************)
\* the most repeating nodes (Event, Organisation, ...) under one response root
MaxNodes == 2
\* the most arguments of one get_... call that differ from their defaults
MaxSupplied == 2
\* the most Event nodes in a response given to extract_disciplines_from_events
MaxEvents == 3

(***************************************************************************)
(* Python values.  Each value carries its type, so that None, '' and NaN   *)
(* are three different things and str(x) is a conversion, not the          *)
(* identity.                                                               *)
(***************************************************************************)
PyNone == [kind |-> "None"]
PyNaN == [kind |-> "NaN"]
PyStr(s) == [kind |-> "str", val |-> s]
PyInt(i) == [kind |-> "int", val |-> i]
PyBool(b) == [kind |-> "bool", val |-> b]
PyList(l) == [kind |-> "list", val |-> l]
\* an exception in flight
PyRaise(exc) == [kind |-> "raise", exc |-> exc]

IsRaise(x) == "kind" \in DOMAIN x /\ x.kind = "raise"

\* the test `x is not None` in place of the truth value
Truthy_is_not_none(x) == x.kind # "None"
\* Python truth value, as `if x:` and `x or y` test it
Truthy(x) ==
    CASE x.kind = "None" -> FALSE
      [] x.kind = "str" -> x.val # ""
      [] x.kind = "list" -> x.val # <<>>
      [] x.kind = "bool" -> x.val
      [] x.kind = "int" -> x.val # 0
      [] OTHER -> TRUE

\* x or y
PyOr(x, y) == IF Truthy(x) THEN x ELSE y

Digits == <<"0", "1", "2", "3", "4", "5", "6", "7", "8", "9">>

\* str(n) for an int n: its decimal form
RECURSIVE IntToStr(_)
IntToStr(n) ==
    IF n < 0 THEN "-" \o IntToStr(0 - n)
    ELSE IF n < 10 THEN Digits[n + 1]
    ELSE IntToStr(n \div 10) \o Digits[(n % 10) + 1]

\* sep.join(strs) for a sequence of strings
RECURSIVE Join(_, _)
Join(sep, strs) ==
    IF strs = <<>> THEN ""
    ELSE IF Len(strs) = 1 THEN strs[1]
    ELSE strs[1] \o sep \o Join(sep, Tail(strs))

\* the IDs joined last to first
JoinIds_reversed(ids) ==
    PyStr(Join(",", [i \in 1..Len(ids) |-> IntToStr(ids[Len(ids) + 1 - i])]))
\* ','.join(map(str, ids)) for a list of ints
JoinIds(ids) == PyStr(Join(",", [i \in 1..Len(ids) |-> IntToStr(ids[i])]))

\* f"{d} 00:00:00" and f"{d} 23:59:59" for a str d
DayStart(d) == PyStr(d.val \o " 00:00:00")
\* the end of the day written as its start
DayEnd_as_start(d) == PyStr(d.val \o " 00:00:00")
DayEnd(d) == PyStr(d.val \o " 23:59:59")

\* a dict with no keys
EmptyDict == [k \in {} |-> PyNone]

(***************************************************************************)
(* xml.etree.ElementTree elements: tag, attrib, text, ordered children.    *)
(***************************************************************************)
Element(tag, attrib, text, children) ==
    [tag |-> tag, attrib |-> attrib, text |-> text, children |-> children]

NoAttrib == [k \in {} |-> ""]

\* <tag>text</tag>
Leaf(tag, text) == Element(tag, NoAttrib, PyStr(text), <<>>)
\* <tag/>: an element with no text has text None
Empty(tag) == Element(tag, NoAttrib, PyNone, <<>>)
\* <tag a="v" .../>
Attr(tag, attrib) == Element(tag, attrib, PyNone, <<>>)
\* <tag> children </tag>
Node(tag, children) == Element(tag, NoAttrib, PyNone, children)

\* Element.iter(): the element and all its descendants in document order
RECURSIVE Iter(_), IterAll(_)
Iter(e) == <<e>> \o IterAll(e.children)
IterAll(es) == IF es = <<>> THEN <<>> ELSE Iter(Head(es)) \o IterAll(Tail(es))

\* the elements of a sequence that satisfy one path step's tag and predicate
RECURSIVE Matching(_, _)
Matching(es, step) ==
    IF es = <<>> THEN <<>>
    ELSE LET e == Head(es)
             ok == /\ e.tag = step.tag
                   /\ step.attr # "" =>
                        (step.attr \in DOMAIN e.attrib /\ e.attrib[step.attr] = step.val)
         IN  (IF ok THEN <<e>> ELSE <<>>) \o Matching(Tail(es), step)

\* './/tag' read as 'tag': only the children are searched
StepFrom_children_only(e, step) == Matching(e.children, step)

\* one step of an ElementPath from one context element: 'tag' selects among
\* the children, './/tag' among all descendants (the element itself excluded)
StepFrom(e, step) ==
    IF step.axis = "child" THEN Matching(e.children, step)
    ELSE Matching(Tail(Iter(e)), step)

RECURSIVE StepAll(_, _)
StepAll(es, step) ==
    IF es = <<>> THEN <<>> ELSE StepFrom(Head(es), step) \o StepAll(Tail(es), step)

\* Element.findall(path): every match, in document order
RECURSIVE Select(_, _)
Select(es, path) ==
    IF path = <<>> THEN es ELSE Select(StepAll(es, Head(path)), Tail(path))

findall(e, path) == Select(<<e>>, path)

\* Element.find(path): the first match, or None
find(e, path) ==
    LET m == findall(e, path) IN IF m = <<>> THEN PyNone ELSE m[1]

\* Element.findtext(path): the first match's text ('' when it has none), or
\* None when nothing matches
findtext(e, path) ==
    LET m == find(e, path)
    IN  IF m = PyNone THEN PyNone
        ELSE IF m.text = PyNone THEN PyStr("") ELSE m.text

\* x.text: AttributeError when x is None
text(x) == IF x = PyNone THEN PyRaise("AttributeError") ELSE x.text

\* x.get(name): AttributeError when x is None, None when the attribute is missing
get(x, name) ==
    IF x = PyNone THEN PyRaise("AttributeError")
    ELSE IF name \in DOMAIN x.attrib THEN PyStr(x.attrib[name]) ELSE PyNone

\* path steps
Child(tag) == [axis |-> "child", tag |-> tag, attr |-> "", val |-> ""]
Desc(tag) == [axis |-> "desc", tag |-> tag, attr |-> "", val |-> ""]
ChildWith(tag, attr, val) == [axis |-> "child", tag |-> tag, attr |-> attr, val |-> val]

(***************************************************************************)
(* The request client.                                                     *)
(***************************************************************************)
NoOperation == [op |-> "", args |-> EmptyDict]
NoResponse == [kind |-> "none"]
NoRequest == [endpoint |-> "", params |-> PyNone]
NoCall == [kind |-> "none"]
NoTable == [kind |-> "none"]

Returns(v) == [kind |-> "return", value |-> v]

\* ET.fromstring(body): the tree of a well-formed body, ET.ParseError otherwise
fromstring(body) ==
    IF body.wellformed THEN body.tree ELSE PyRaise("ParseError")

\* Response.raise_for_status(): HTTPError for a 4xx or 5xx status, nothing otherwise
raise_for_status(status) ==
    IF 400 <= status /\ status < 600 THEN PyRaise("HTTPError") ELSE PyNone

\* what a _make_request call did: the request, the number of GETs, the log
\* and the way it ended
Outcome(endpoint, params, n, logged, res) ==
    [request |-> [endpoint |-> endpoint, params |-> params], gets |-> n,
     log |-> logged, result |-> res]

LogError(msg, txt) == [level |-> "ERROR", msg |-> msg, text |-> txt]

\* _make_request without the inner try: the ParseError is logged as a failed
\* request and propagates
make_request_no_inner_try(endpoint, params, resp) ==
    IF resp.kind = "ConnectionError"
    THEN Outcome(endpoint, params, 1, <<LogError("API request failed", "ConnectionError")>>,
                 PyRaise("ConnectionError"))
    ELSE IF IsRaise(raise_for_status(resp.status))
    THEN Outcome(endpoint, params, 1, <<LogError("API request failed", "HTTPError")>>,
                 PyRaise("HTTPError"))
    ELSE IF IsRaise(fromstring(resp.body))
    THEN Outcome(endpoint, params, 1, <<LogError("API request failed", "ParseError")>>,
                 PyRaise("ParseError"))
    ELSE Outcome(endpoint, params, 1, <<>>, Returns(fromstring(resp.body)))

\* _make_request with one retry of a failed GET before giving up
make_request_retry(endpoint, params, resp) ==
    IF resp.kind = "ConnectionError"
    THEN Outcome(endpoint, params, 2, <<LogError("API request failed", "ConnectionError")>>,
                 PyRaise("ConnectionError"))
    ELSE IF IsRaise(raise_for_status(resp.status))
    THEN Outcome(endpoint, params, 2, <<LogError("API request failed", "HTTPError")>>,
                 PyRaise("HTTPError"))
    ELSE IF IsRaise(fromstring(resp.body))
    THEN Outcome(endpoint, params, 1, <<LogError("XMLParseError", resp.body.text)>>,
                 Returns(PyNone))
    ELSE Outcome(endpoint, params, 1, <<>>, Returns(fromstring(resp.body)))

\* _make_request(endpoint, params) when the server answers resp: one GET; a
\* connection error or an HTTPError of raise_for_status is logged and raised
\* again; a ParseError is logged with the body and None is returned; otherwise
\* the parsed tree is returned
make_request(endpoint, params, resp) ==
    IF resp.kind = "ConnectionError"
    THEN Outcome(endpoint, params, 1, <<LogError("API request failed", "ConnectionError")>>,
                 PyRaise("ConnectionError"))
    ELSE IF IsRaise(raise_for_status(resp.status))
    THEN Outcome(endpoint, params, 1, <<LogError("API request failed", "HTTPError")>>,
                 PyRaise("HTTPError"))
    ELSE IF IsRaise(fromstring(resp.body))
    THEN Outcome(endpoint, params, 1, <<LogError("XMLParseError", resp.body.text)>>,
                 Returns(PyNone))
    ELSE Outcome(endpoint, params, 1, <<>>, Returns(fromstring(resp.body)))

\* the dict d with d[key] = value added
SetItem(d, key, value) == (key :> value) @@ d

\* get_events: the params dict built from the arguments
get_events_params(from_date, to_date, classification_ids) ==
    LET p0 == EmptyDict
        p1 == IF Truthy(from_date) THEN SetItem(p0, "fromDate", DayStart(from_date)) ELSE p0
        p2 == IF Truthy(to_date) THEN SetItem(p1, "toDate", DayEnd(to_date)) ELSE p1
        p3 == IF Truthy(classification_ids)
              THEN SetItem(p2, "classificationIds", JoinIds(classification_ids.val)) ELSE p2
    IN  p3

\* get_event_classes: the params dict
get_event_classes_params(event_id, include_entry_fees) ==
    [eventId |-> event_id, includeEntryFees |-> include_entry_fees]

\* get_entryfees: the endpoint
get_entryfees_endpoint(event_id) == "entryfees/events/" \o IntToStr(event_id.val)

\* get_entries: the params dict built from the argument record a
get_entries_params(a) ==
    LET p0 == EmptyDict
        p1 == IF Truthy(a.organisation_ids)
              THEN SetItem(p0, "organisationIds", JoinIds(a.organisation_ids.val)) ELSE p0
        p2 == IF Truthy(a.event_ids)
              THEN SetItem(p1, "eventIds", JoinIds(a.event_ids.val)) ELSE p1
        p3 == IF Truthy(a.event_class_ids)
              THEN SetItem(p2, "eventClassIds", JoinIds(a.event_class_ids.val)) ELSE p2
        p4 == IF Truthy(a.from_event_date)
              THEN SetItem(p3, "fromEventDate", DayStart(a.from_event_date)) ELSE p3
        p5 == IF Truthy(a.to_event_date)
              THEN SetItem(p4, "toEventDate", DayEnd(a.to_event_date)) ELSE p4
        p6 == IF Truthy(a.from_entry_date)
              THEN SetItem(p5, "fromEntryDate", DayStart(a.from_entry_date)) ELSE p5
        p7 == IF Truthy(a.to_entry_date)
              THEN SetItem(p6, "toEntryDate", DayEnd(a.to_entry_date)) ELSE p6
        p8 == IF Truthy(a.from_modify_date)
              THEN SetItem(p7, "fromModifyDate", DayStart(a.from_modify_date)) ELSE p7
        p9 == IF Truthy(a.to_modify_date)
              THEN SetItem(p8, "toModifyDate", DayEnd(a.to_modify_date)) ELSE p8
        p10 == SetItem(p9, "includeEntryFees", a.include_entry_fees)
        p11 == SetItem(p10, "includePersonElement", a.include_person_element)
        p12 == SetItem(p11, "includeOrganisationElement", a.include_organisation_element)
        p13 == SetItem(p12, "includeEventElement", a.include_event_element)
    IN  p13

\* get_competitor_count: the params dict
get_competitor_count_params(organisation_ids, event_ids, person_ids) ==
    LET p0 == EmptyDict
        p1 == IF organisation_ids # PyNone
              THEN SetItem(p0, "organisationIds", JoinIds(organisation_ids.val)) ELSE p0
        p2 == IF event_ids # PyNone
              THEN SetItem(p1, "eventIds", JoinIds(event_ids.val)) ELSE p1
        p3 == IF person_ids # PyNone
              THEN SetItem(p2, "personIds", JoinIds(person_ids.val)) ELSE p2
    IN  p3

\* get_memberships: the params dict
get_memberships_params(organisation_id, year, include_child, include_contact) ==
    [organisationId |-> organisation_id, year |-> year,
     includeChildOrganisations |-> include_child,
     includeContactDetails |-> include_contact]

(***************************************************************************)
(* The arguments the model passes to the get_... operations.               *)
(***************************************************************************)
Ids == {3, 12}
Years == {2024}
Dates == {"2024-03-01", "2024-12-31"}

\* an Optional[str] date argument: None (the default), '' or a plain date
DateArgs == {PyStr("")} \cup {PyStr(d) : d \in Dates}
\* an Optional[List[int]] argument: None (the default) or a list of IDs
IdLists == {<<>>, <<3>>, <<3, 12>>, <<12, 3>>, <<12, 12>>, <<12, 3, 7>>}
ListArgs == {PyList(l) : l \in IdLists}

\* the argument records that differ from the defaults in at most MaxSupplied
\* arguments, each supplied argument drawn from its choices
ArgRecords(defaults, choices) ==
    LET names == DOMAIN defaults
        all == UNION {choices[n] : n \in names}
    IN  UNION {
          {[n \in names |-> IF n \in S THEN f[n] ELSE defaults[n]] :
               f \in {g \in [S -> all] : \A n \in S : g[n] \in choices[n]}} :
          S \in {T \in SUBSET names : Cardinality(T) <= MaxSupplied}}

get_events_defaults ==
    [from_date |-> PyNone, to_date |-> PyNone, classification_ids |-> PyNone]
get_events_args ==
    ArgRecords(get_events_defaults,
               [from_date |-> DateArgs, to_date |-> DateArgs,
                classification_ids |-> ListArgs])

get_entries_defaults ==
    [organisation_ids |-> PyNone, event_ids |-> PyNone, event_class_ids |-> PyNone,
     from_event_date |-> PyNone, to_event_date |-> PyNone,
     from_entry_date |-> PyNone, to_entry_date |-> PyNone,
     from_modify_date |-> PyNone, to_modify_date |-> PyNone,
     include_entry_fees |-> PyBool(FALSE), include_person_element |-> PyBool(FALSE),
     include_organisation_element |-> PyBool(FALSE),
     include_event_element |-> PyBool(FALSE)]
get_entries_args ==
    ArgRecords(get_entries_defaults,
               [organisation_ids |-> ListArgs, event_ids |-> ListArgs,
                event_class_ids |-> ListArgs,
                from_event_date |-> DateArgs, to_event_date |-> DateArgs,
                from_entry_date |-> DateArgs, to_entry_date |-> DateArgs,
                from_modify_date |-> DateArgs, to_modify_date |-> DateArgs,
                include_entry_fees |-> {PyBool(TRUE)},
                include_person_element |-> {PyBool(TRUE)},
                include_organisation_element |-> {PyBool(TRUE)},
                include_event_element |-> {PyBool(TRUE)}])

get_competitor_count_defaults ==
    [organisation_ids |-> PyNone, event_ids |-> PyNone, person_ids |-> PyNone]
get_competitor_count_args ==
    ArgRecords(get_competitor_count_defaults,
               [organisation_ids |-> ListArgs, event_ids |-> ListArgs,
                person_ids |-> ListArgs])

(***************************************************************************)
(* The record extractors.                                                  *)
(***************************************************************************)
\* e.find(p).text if e.find(p) is not None else None
text_if(e, p) == IF find(e, p) # PyNone THEN text(find(e, p)) ELSE PyNone

\* e.find(p).get(a) if e.find(p) is not None else None
get_if(e, p, a) == IF find(e, p) # PyNone THEN get(find(e, p), a) ELSE PyNone

\* ', '.join([d.text for d in ds]): TypeError when some text is None
join_texts(ds) ==
    IF \E i \in 1..Len(ds) : ds[i].text = PyNone THEN PyRaise("TypeError")
    ELSE PyStr(Join(", ", [i \in 1..Len(ds) |-> ds[i].text.val]))

\* pd.DataFrame(records): the columns are the keys of all the dicts, and a
\* row has NaN where its dict has no such key
DataFrame(records) ==
    LET cols == UNION {DOMAIN records[i] : i \in 1..Len(records)}
    IN  [columns |-> cols,
         rows |-> [i \in 1..Len(records) |->
                     [c \in cols |-> IF c \in DOMAIN records[i]
                                     THEN records[i][c] ELSE PyNaN]]]

\* the loop of an extractor: one dict per node, appended in order; the first
\* dict expression that raises ends the call
\* (dicts[i] is the value of the dict expression for the i-th node)
RECURSIVE Collect(_, _)
Collect(dicts, done) ==
    IF dicts = <<>> THEN [kind |-> "list", val |-> done]
    ELSE LET d == Head(dicts)
         IN  IF IsRaise(d) THEN d ELSE Collect(Tail(dicts), Append(done, d))

\* the list of dicts kept from one call of fn to the next, instead of a new
\* list in each call
Table_kept_list(fn, collected) ==
    IF IsRaise(collected)
    THEN [kind |-> "raise", fn |-> fn, exc |-> collected.exc]
    ELSE LET kept == IF table.kind = "return" /\ table.fn = fn
                     THEN table.records ELSE <<>>
         IN  [kind |-> "return", fn |-> fn, records |-> kept \o collected.val,
              df |-> DataFrame(kept \o collected.val)]
\* the end of an extractor call fn: the exception, or the DataFrame of the
\* dicts collected in the call's own new list
Table(fn, collected) ==
    IF IsRaise(collected)
    THEN [kind |-> "raise", fn |-> fn, exc |-> collected.exc]
    ELSE [kind |-> "return", fn |-> fn, records |-> collected.val,
          df |-> DataFrame(collected.val)]

\* data.findall(path) for the argument of an extractor: AttributeError on None
nodes_of(data, path) ==
    IF data = PyNone THEN PyRaise("AttributeError")
    ELSE [kind |-> "list", val |-> findall(data, path)]

\* events_to_dataframe: the dict of one Event
event_dict(event) ==
    LET OrganisationId ==
            IF find(event, <<Desc("Organiser")>>) # PyNone
            THEN text(find(event, <<Desc("Organiser"), Child("OrganisationId")>>))
            ELSE PyNone
        DisciplineIds == join_texts(findall(event, <<Desc("DisciplineId")>>))
        main ==
            [EventId |-> findtext(event, <<Child("EventId")>>),
             Name |-> findtext(event, <<Child("Name")>>),
             StartDate |-> findtext(event, <<Child("StartDate"), Child("Date")>>),
             StartClock |-> findtext(event, <<Child("StartDate"), Child("Clock")>>),
             FinishDate |-> findtext(event, <<Child("FinishDate"), Child("Date")>>),
             FinishClock |-> findtext(event, <<Child("FinishDate"), Child("Clock")>>),
             EventClassificationId |-> findtext(event, <<Child("EventClassificationId")>>),
             EventStatusId |-> findtext(event, <<Child("EventStatusId")>>),
             OrganisationId |-> OrganisationId,
             WebURL |-> findtext(event, <<Child("WebURL")>>),
             PunchingUnitType |-> get_if(event, <<Child("PunchingUnitType")>>, "value"),
             DisciplineIds |-> DisciplineIds]
        event_race == find(event, <<Desc("EventRace")>>)
        race_date == find(event_race, <<Child("RaceDate")>>)
        event_center == find(event_race, <<Desc("EventCenterPosition")>>)
        date_part ==
            IF race_date # PyNone
            THEN [RaceDate |-> findtext(race_date, <<Child("Date")>>),
                  RaceClock |-> findtext(race_date, <<Child("Clock")>>)]
            ELSE [RaceDate |-> PyNone, RaceClock |-> PyNone]
        center_part ==
            IF event_center # PyNone
            THEN [EventCenterX |-> get(event_center, "x"),
                  EventCenterY |-> get(event_center, "y"),
                  EventCenterUnit |-> get(event_center, "unit")]
            ELSE [EventCenterX |-> PyNone, EventCenterY |-> PyNone,
                  EventCenterUnit |-> PyNone]
        race_part ==
            IF event_race # PyNone
            THEN [EventRaceDistance |-> get(event_race, "raceDistance"),
                  EventRaceId |-> findtext(event_race, <<Child("EventRaceId")>>),
                  EventRaceName |->
                      PyOr(findtext(event_race, <<Child("Name")>>), PyStr(""))]
                 @@ date_part @@ center_part
            ELSE [EventRaceId |-> PyNone, EventRaceName |-> PyStr(""),
                  RaceDate |-> PyNone, RaceClock |-> PyNone,
                  EventCenterX |-> PyNone, EventCenterY |-> PyNone,
                  EventCenterUnit |-> PyNone]
    IN  IF IsRaise(OrganisationId) THEN OrganisationId
        ELSE IF IsRaise(DisciplineIds) THEN DisciplineIds
        ELSE main @@ race_part

events_to_dataframe(events_data) ==
    IF events_data = PyNone
    THEN Table("events_to_dataframe", [kind |-> "list", val |-> <<>>])
    ELSE Table("events_to_dataframe",
               LET nodes == findall(events_data, <<Desc("Event")>>)
               IN  Collect([i \in 1..Len(nodes) |-> event_dict(nodes[i])], <<>>))

\* organizations_to_dataframe: the dict of one Organisation
org_dict(org) ==
    [OrganisationId |-> findtext(org, <<Child("OrganisationId")>>),
     Name |-> findtext(org, <<Child("Name")>>),
     ShortName |-> findtext(org, <<Child("ShortName")>>),
     MediaName |-> findtext(org, <<Child("MediaName")>>),
     OrganisationTypeId |-> findtext(org, <<Child("OrganisationTypeId")>>),
     CountryId |-> get_if(org, <<Desc("Country"), Child("CountryId")>>, "value"),
     Alpha3 |-> get_if(org, <<Desc("Country"), Child("Alpha3")>>, "value"),
     CountryName_en |->
         text_if(org, <<Desc("Country"), ChildWith("Name", "languageId", "en")>>),
     CountryName_sv |->
         text_if(org, <<Desc("Country"), ChildWith("Name", "languageId", "sv")>>),
     Address_careOf |-> get_if(org, <<Desc("Address")>>, "careOf"),
     Address_street |-> get_if(org, <<Desc("Address")>>, "street"),
     Address_city |-> get_if(org, <<Desc("Address")>>, "city"),
     Address_zipCode |-> get_if(org, <<Desc("Address")>>, "zipCode"),
     AddressType |-> get_if(org, <<Desc("AddressType")>>, "value"),
     Tele_phoneNumber |-> get_if(org, <<Desc("Tele")>>, "phoneNumber"),
     Tele_mobilePhoneNumber |-> get_if(org, <<Desc("Tele")>>, "mobilePhoneNumber"),
     Tele_mailAddress |-> get_if(org, <<Desc("Tele")>>, "mailAddress"),
     TeleType |-> get_if(org, <<Desc("TeleType")>>, "value"),
     ParentOrganisationId |->
         text_if(org, <<Desc("ParentOrganisation"), Child("OrganisationId")>>),
     OrganisationStatusId |-> findtext(org, <<Child("OrganisationStatusId")>>),
     ModifyDate |-> text_if(org, <<Desc("ModifyDate"), Child("Date")>>),
     ModifyClock |-> text_if(org, <<Desc("ModifyDate"), Child("Clock")>>)]

organizations_to_dataframe(organizations_data) ==
    Table("organizations_to_dataframe",
          LET found == nodes_of(organizations_data, <<Desc("Organisation")>>)
          IN  IF IsRaise(found) THEN found
              ELSE Collect([i \in 1..Len(found.val) |-> org_dict(found.val[i])], <<>>))

\* event_classes_to_dataframe: the dict of one EventClass
event_class_dict(event_class) ==
    [EventClassId |-> findtext(event_class, <<Child("EventClassId")>>),
     Name |-> findtext(event_class, <<Child("Name")>>),
     ClassShortName |-> findtext(event_class, <<Child("ClassShortName")>>),
     EventClassStatus |-> get_if(event_class, <<Child("EventClassStatus")>>, "value"),
     ClassTypeId |-> text_if(event_class, <<Desc("ClassType"), Child("ClassTypeId")>>),
     ClassTypeShortName |->
         text_if(event_class, <<Desc("ClassType"), Child("ShortName")>>),
     ClassTypeName |-> text_if(event_class, <<Desc("ClassType"), Child("Name")>>),
     ExternalId |-> findtext(event_class, <<Child("ExternalId")>>),
     PunchingUnitType |-> get_if(event_class, <<Child("PunchingUnitType")>>, "value"),
     ClassRaceInfoId |->
         text_if(event_class, <<Desc("ClassRaceInfo"), Child("ClassRaceInfoId")>>),
     EventRaceId |->
         text_if(event_class, <<Desc("ClassRaceInfo"), Child("EventRaceId")>>),
     ClassRaceName |-> text_if(event_class, <<Desc("ClassRaceInfo"), Child("Name")>>),
     ClassRaceStatus |->
         get_if(event_class, <<Desc("ClassRaceInfo"), Child("ClassRaceStatus")>>, "value"),
     ClassRacePunchingUnitType |->
         get_if(event_class, <<Desc("ClassRaceInfo"), Child("PunchingUnitType")>>, "value"),
     MinRunners |-> get_if(event_class, <<Desc("ClassRaceInfo")>>, "minRunners"),
     MaxRunners |-> get_if(event_class, <<Desc("ClassRaceInfo")>>, "maxRunners"),
     NoOfEntries |-> get_if(event_class, <<Desc("ClassRaceInfo")>>, "noOfEntries"),
     NoOfStarts |-> get_if(event_class, <<Desc("ClassRaceInfo")>>, "noOfStarts"),
     Sex |-> get(event_class, "sex"),
     NumberOfEntries |-> get(event_class, "numberOfEntries")]

event_classes_to_dataframe(event_classes_data) ==
    Table("event_classes_to_dataframe",
          LET found == nodes_of(event_classes_data, <<Desc("EventClass")>>)
          IN  IF IsRaise(found) THEN found
              ELSE Collect([i \in 1..Len(found.val) |-> event_class_dict(found.val[i])], <<>>))

\* entryfees_to_dataframe: the dict of one EntryFee
entry_fee_dict(entry_fee) ==
    [EntryFeeId |-> findtext(entry_fee, <<Child("EntryFeeId")>>),
     Name |-> findtext(entry_fee, <<Child("Name")>>),
     Amount |-> findtext(entry_fee, <<Child("Amount")>>),
     Currency |-> get_if(entry_fee, <<Child("Amount")>>, "currency"),
     ExternalFee |-> findtext(entry_fee, <<Child("ExternalFee")>>),
     FromDateOfBirth |-> text_if(entry_fee, <<Desc("FromDateOfBirth"), Child("Date")>>),
     ToDateOfBirth |-> text_if(entry_fee, <<Desc("ToDateOfBirth"), Child("Date")>>),
     EntryFeeGroupId |-> findtext(entry_fee, <<Child("EntryFeeGroupId")>>),
     TaxIncluded |-> get(entry_fee, "taxIncluded"),
     EntryFeeType |-> get(entry_fee, "entryFeeType"),
     Type |-> get(entry_fee, "type")]

entryfees_to_dataframe(entryfees_data) ==
    Table("entryfees_to_dataframe",
          LET found == nodes_of(entryfees_data, <<Desc("EntryFee")>>)
          IN  IF IsRaise(found) THEN found
              ELSE Collect([i \in 1..Len(found.val) |-> entry_fee_dict(found.val[i])], <<>>))

\* entries_to_dataframe: the dict of one Entry
entry_dict(entry) ==
    [EntryId |-> findtext(entry, <<Child("EntryId")>>),
     CompetitorId |-> text_if(entry, <<Desc("Competitor"), Child("CompetitorId")>>),
     PersonId |-> text_if(entry, <<Desc("Competitor"), Child("PersonId")>>),
     OrganisationId |-> text_if(entry, <<Desc("Competitor"), Child("OrganisationId")>>),
     CCardId |-> text_if(entry, <<Desc("CCard"), Child("CCardId")>>),
     PunchingUnitType |->
         get_if(entry, <<Desc("CCard"), Child("PunchingUnitType")>>, "value"),
     EventClassId |-> text_if(entry, <<Desc("EntryClass"), Child("EventClassId")>>),
     EventId |-> findtext(entry, <<Child("EventId")>>),
     EventRaceId |-> findtext(entry, <<Child("EventRaceId")>>),
     BibNumber |-> findtext(entry, <<Child("BibNumber")>>),
     EntryDate |-> text_if(entry, <<Desc("EntryDate"), Child("Date")>>),
     EntryClock |-> text_if(entry, <<Desc("EntryDate"), Child("Clock")>>),
     EntryFeeGroupId |-> findtext(entry, <<Child("EntryFeeGroupId")>>),
     CreatedBy |-> text_if(entry, <<Desc("CreatedBy"), Child("PersonId")>>),
     ModifyDate |-> text_if(entry, <<Desc("ModifyDate"), Child("Date")>>),
     ModifyClock |-> text_if(entry, <<Desc("ModifyDate"), Child("Clock")>>),
     ModifiedBy |-> text_if(entry, <<Desc("ModifiedBy"), Child("PersonId")>>)]

entries_to_dataframe(entries_data) ==
    Table("entries_to_dataframe",
          LET found == nodes_of(entries_data, <<Desc("Entry")>>)
          IN  IF IsRaise(found) THEN found
              ELSE Collect([i \in 1..Len(found.val) |-> entry_dict(found.val[i])], <<>>))

\* competitor_count_to_dataframe: the dict of one CompetitorCount
competitor_count_dict(competitor_count) ==
    [eventId |-> get(competitor_count, "eventId"),
     numberOfEntries |-> get(competitor_count, "numberOfEntries"),
     numberOfStarts |-> get(competitor_count, "numberOfStarts")]

competitor_count_to_dataframe(competitor_count_data) ==
    Table("competitor_count_to_dataframe",
          LET found == nodes_of(competitor_count_data, <<Desc("CompetitorCount")>>)
          IN  IF IsRaise(found) THEN found
              ELSE Collect([i \in 1..Len(found.val) |->
                               competitor_count_dict(found.val[i])], <<>>))

\* memberships_to_dataframe: the dict of one Membership, given the three
\* values read from the Organisation node
membership_dict(membership, organisation_id, organisation_name, organisation_shortname) ==
    [OrganisationId |-> organisation_id,
     OrganisationName |-> organisation_name,
     OrganisationShortName |-> organisation_shortname,
     MembershipId |-> findtext(membership, <<Child("Id")>>),
     Year |-> findtext(membership, <<Child("Year")>>),
     TypeId |-> text_if(membership, <<Desc("Type"), Child("Id")>>),
     TypeName |-> text_if(membership, <<Desc("Type"), Child("Name")>>),
     PersonId |-> text_if(membership, <<Desc("Person"), Child("Id")>>),
     FirstName |-> text_if(membership, <<Desc("Person"), Child("FirstName")>>),
     LastName |-> text_if(membership, <<Desc("Person"), Child("LastName")>>),
     BirthDate |-> text_if(membership, <<Desc("Person"), Child("BirthDate")>>),
     Sex |-> text_if(membership, <<Desc("Person"), Child("Sex")>>),
     PaidTime |-> findtext(membership, <<Child("PaidTime")>>)]

\* the last Organisation node of the tree instead of the first
membership_organisation_last(memberships_data) ==
    LET m == findall(memberships_data, <<Desc("Organisation")>>)
    IN  IF m = <<>> THEN PyNone ELSE m[Len(m)]

\* the Organisation node memberships_to_dataframe reads: the first in the tree
membership_organisation(memberships_data) ==
    find(memberships_data, <<Desc("Organisation")>>)

memberships_to_dataframe(memberships_data) ==
    IF memberships_data = PyNone
    THEN Table("memberships_to_dataframe", PyRaise("AttributeError"))
    ELSE LET organisation == membership_organisation(memberships_data)
         IN  IF organisation = PyNone
             THEN Table("memberships_to_dataframe", PyRaise("AttributeError"))
             ELSE LET organisation_id == findtext(organisation, <<Child("Id")>>)
                      organisation_name == findtext(organisation, <<Child("Name")>>)
                      organisation_shortname ==
                          findtext(organisation, <<Child("ShortName")>>)
                      build(membership) ==
                          membership_dict(membership, organisation_id,
                                          organisation_name, organisation_shortname)
                  IN  Table("memberships_to_dataframe",
                            LET nodes == findall(memberships_data, <<Desc("Membership")>>)
                            IN  Collect([i \in 1..Len(nodes) |-> build(nodes[i])], <<>>))

\* extract_disciplines_from_events: the pair of one Discipline node
discipline_pair(discipline) ==
    <<findtext(discipline, <<Child("DisciplineId")>>),
      findtext(discipline, <<Child("Name")>>)>>

\* the test `if discipline_id:` in place of `if discipline_id and name:`
discipline_kept_id_only(pair) == Truthy(pair[1])

\* whether the loop adds the pair of a Discipline node to the set
discipline_kept(pair) == Truthy(pair[1]) /\ Truthy(pair[2])

\* the set the loops over the events and their Discipline nodes build
disciplines_of(events_data) ==
    LET events == findall(events_data, <<Desc("Event")>>)
        found(event) == findall(event, <<Desc("Discipline")>>)
        pairs == UNION {{discipline_pair(found(events[i])[j]) :
                            j \in 1..Len(found(events[i]))} : i \in 1..Len(events)}
    IN  {p \in pairs : discipline_kept(p)}

\* list(disciplines): the elements of the set, each once, in the order the
\* set happens to iterate (any order)
ListsOf(S) ==
    {l \in [1..Cardinality(S) -> S] : \A i, j \in 1..Cardinality(S) : l[i] = l[j] => i = j}

\* pd.DataFrame(rows, columns=['DisciplineId', 'Name']) for a list of pairs
DisciplineFrame(rows) ==
    [columns |-> {"DisciplineId", "Name"},
     rows |-> [i \in 1..Len(rows) |-> [DisciplineId |-> rows[i][1], Name |-> rows[i][2]]]]

\* extract_disciplines_from_events after get_events has returned events_data:
\* every table the call can return, or the exception it raises
extract_disciplines(events_data) ==
    IF events_data = PyNone
    THEN {[kind |-> "raise", fn |-> "extract_disciplines_from_events",
           exc |-> "AttributeError"]}
    ELSE {[kind |-> "return", fn |-> "extract_disciplines_from_events",
           records |-> l, df |-> DisciplineFrame(l)] :
             l \in ListsOf(disciplines_of(events_data))}

(***************************************************************************)
(* The response trees of the model: for each response shape a few node     *)
(* variants (complete, bare, partly filled, nested), and every sequence of *)
(* at most MaxNodes of them under the shape's root.                        *)
(***************************************************************************)
DateClock(tag) == Node(tag, <<Leaf("Date", "2024-03-01"), Leaf("Clock", "10:00:00")>>)

EventRaceFull ==
    Element("EventRace", ("raceDistance" :> "5000"), PyNone,
            <<Leaf("EventRaceId", "9"), Leaf("Name", "Race 1"), DateClock("RaceDate"),
              Attr("EventCenterPosition", ("x" :> "151.2" @@ "y" :> "-33.8" @@ "unit" :> "WGS-84"))>>)

\* an Event with every group present
EventFull ==
    Node("Event",
         <<Leaf("EventId", "101"), Leaf("Name", "Sprint"), DateClock("StartDate"),
           DateClock("FinishDate"), Leaf("EventClassificationId", "3"),
           Leaf("EventStatusId", "5"), Node("Organiser", <<Leaf("OrganisationId", "7")>>),
           Leaf("WebURL", "http://o.example"), Attr("PunchingUnitType", ("value" :> "SI")),
           Leaf("DisciplineId", "1"), Leaf("DisciplineId", "2"), EventRaceFull>>)

\* an Event whose race has raceDistance="5000" and no EventCenterPosition
EventRaceNoCenter ==
    Node("Event",
         <<Leaf("EventId", "102"), Leaf("Name", "Middle"),
           Element("EventRace", ("raceDistance" :> "5000"), PyNone,
                   <<Leaf("EventRaceId", "10")>>)>>)

\* an Event with no optional group at all
EventBare == Node("Event", <<Leaf("EventId", "103")>>)

\* an Event whose Organiser has no OrganisationId child
EventOrganiserNoId ==
    Node("Event", <<Leaf("EventId", "104"), Node("Organiser", <<Leaf("Name", "Club")>>)>>)

\* an Event with a DisciplineId that has no text
EventDisciplineNoText ==
    Node("Event", <<Leaf("EventId", "105"), Leaf("DisciplineId", "1"), Empty("DisciplineId")>>)

\* an Event with another Event nested inside it
EventNested ==
    Node("Event", <<Leaf("EventId", "106"), Node("Related", <<Node("Event", <<Leaf("EventId", "107")>>)>>)>>)

\* an Event whose race has no attributes, an empty Name and no RaceDate
EventRaceSparse ==
    Node("Event",
         <<Leaf("EventId", "108"), Empty("Name"), Empty("PunchingUnitType"),
           Node("EventRace", <<Empty("Name"), Empty("EventCenterPosition")>>)>>)

EventVariants ==
    {EventFull, EventRaceNoCenter, EventBare, EventOrganiserNoId,
     EventDisciplineNoText, EventNested, EventRaceSparse}

OrganisationFull ==
    Node("Organisation",
         <<Leaf("OrganisationId", "7"), Leaf("Name", "Acme"), Leaf("ShortName", "AC"),
           Leaf("MediaName", "Acme O"), Leaf("OrganisationTypeId", "3"),
           Node("Country",
                <<Attr("CountryId", ("value" :> "36")), Attr("Alpha3", ("value" :> "AUS")),
                  Element("Name", ("languageId" :> "en"), PyStr("Australia"), <<>>),
                  Element("Name", ("languageId" :> "sv"), PyStr("Australien"), <<>>)>>),
           Element("Address",
                   ("careOf" :> "c/o" @@ "street" :> "1 Main St" @@ "city" :> "Sydney"
                      @@ "zipCode" :> "2000"),
                   PyNone, <<Attr("AddressType", ("value" :> "official"))>>),
           Element("Tele",
                   ("phoneNumber" :> "555" @@ "mobilePhoneNumber" :> "0400"
                      @@ "mailAddress" :> "a@o.example"),
                   PyNone, <<Attr("TeleType", ("value" :> "official"))>>),
           Node("ParentOrganisation", <<Leaf("OrganisationId", "2")>>),
           Leaf("OrganisationStatusId", "1"), DateClock("ModifyDate")>>)

OrganisationBare == Node("Organisation", <<Leaf("OrganisationId", "8")>>)

\* an Organisation whose groups are present but partly filled
OrganisationPartial ==
    Node("Organisation",
         <<Leaf("OrganisationId", "9"), Empty("Name"),
           Node("Country", <<Empty("CountryId"),
                             Element("Name", ("languageId" :> "sv"), PyStr("Sverige"), <<>>)>>),
           Attr("Address", ("city" :> "Perth")), Empty("Tele"),
           Node("ParentOrganisation", <<Empty("OrganisationId")>>),
           Node("ModifyDate", <<Leaf("Date", "2024-03-01")>>)>>)

\* an Organisation with another Organisation nested inside it
OrganisationNested ==
    Node("Organisation",
         <<Leaf("OrganisationId", "10"),
           Node("SubOrganisations", <<Node("Organisation", <<Leaf("OrganisationId", "11")>>)>>)>>)

OrganisationVariants ==
    {OrganisationFull, OrganisationBare, OrganisationPartial, OrganisationNested}

EventClassFull ==
    Element("EventClass", ("sex" :> "M" @@ "numberOfEntries" :> "12"), PyNone,
            <<Leaf("EventClassId", "21"), Leaf("Name", "Men 21"), Leaf("ClassShortName", "M21"),
              Attr("EventClassStatus", ("value" :> "normal")),
              Node("ClassType", <<Leaf("ClassTypeId", "1"), Leaf("ShortName", "E"),
                                  Leaf("Name", "Elite")>>),
              Leaf("ExternalId", "x21"), Attr("PunchingUnitType", ("value" :> "SI")),
              Element("ClassRaceInfo",
                      ("minRunners" :> "1" @@ "maxRunners" :> "99" @@ "noOfEntries" :> "12"
                         @@ "noOfStarts" :> "11"),
                      PyNone,
                      <<Leaf("ClassRaceInfoId", "31"), Leaf("EventRaceId", "9"),
                        Leaf("Name", "Final"), Attr("ClassRaceStatus", ("value" :> "ok")),
                        Attr("PunchingUnitType", ("value" :> "Emit"))>>)>>)

EventClassBare == Node("EventClass", <<Leaf("EventClassId", "22")>>)

EventClassPartial ==
    Element("EventClass", ("sex" :> "F"), PyNone,
            <<Leaf("EventClassId", "23"), Empty("EventClassStatus"),
              Node("ClassType", <<Empty("ClassTypeId")>>),
              Node("ClassRaceInfo", <<Empty("ClassRaceStatus")>>),
              Node("Sub", <<Node("EventClass", <<Leaf("EventClassId", "24")>>)>>)>>)

EventClassVariants == {EventClassFull, EventClassBare, EventClassPartial}

EntryFeeFull ==
    Element("EntryFee",
            ("taxIncluded" :> "Y" @@ "entryFeeType" :> "adult" @@ "type" :> "normal"), PyNone,
            <<Leaf("EntryFeeId", "41"), Leaf("Name", "Adult"),
              Element("Amount", ("currency" :> "AUD"), PyStr("25"), <<>>),
              Leaf("ExternalFee", "0"),
              Node("FromDateOfBirth", <<Leaf("Date", "1900-01-01")>>),
              Node("ToDateOfBirth", <<Leaf("Date", "2003-12-31")>>),
              Leaf("EntryFeeGroupId", "5")>>)

EntryFeeBare == Node("EntryFee", <<Leaf("EntryFeeId", "42")>>)

EntryFeePartial ==
    Element("EntryFee", ("type" :> "late"), PyNone,
            <<Leaf("EntryFeeId", "43"), Empty("Amount"), Node("FromDateOfBirth", <<Empty("Date")>>),
              Node("Sub", <<Node("EntryFee", <<Leaf("EntryFeeId", "44")>>)>>)>>)

EntryFeeVariants == {EntryFeeFull, EntryFeeBare, EntryFeePartial}

EntryFull ==
    Node("Entry",
         <<Leaf("EntryId", "51"),
           Node("Competitor", <<Leaf("CompetitorId", "61"), Leaf("PersonId", "71"),
                                Leaf("OrganisationId", "7"),
                                Node("CCard", <<Leaf("CCardId", "81"),
                                                Attr("PunchingUnitType", ("value" :> "SI"))>>)>>),
           Node("EntryClass", <<Leaf("EventClassId", "21")>>),
           Leaf("EventId", "101"), Leaf("EventRaceId", "9"), Leaf("BibNumber", "17"),
           DateClock("EntryDate"), Leaf("EntryFeeGroupId", "5"),
           Node("CreatedBy", <<Leaf("PersonId", "71")>>), DateClock("ModifyDate"),
           Node("ModifiedBy", <<Leaf("PersonId", "72")>>)>>)

EntryBare == Node("Entry", <<Leaf("EntryId", "52")>>)

EntryPartial ==
    Node("Entry",
         <<Leaf("EntryId", "53"), Node("Competitor", <<Empty("PersonId")>>),
           Node("CCard", <<Empty("PunchingUnitType")>>), Empty("EventId"),
           Node("Sub", <<Node("Entry", <<Leaf("EntryId", "54")>>)>>)>>)

EntryVariants == {EntryFull, EntryBare, EntryPartial}

CompetitorCountFull ==
    Attr("CompetitorCount",
         ("eventId" :> "101" @@ "numberOfEntries" :> "40" @@ "numberOfStarts" :> "38"))

CompetitorCountBare == Empty("CompetitorCount")

CompetitorCountNested ==
    Element("CompetitorCount", ("eventId" :> "102"), PyNone,
            <<Attr("CompetitorCount", ("eventId" :> "103" @@ "numberOfEntries" :> "2"))>>)

CompetitorCountVariants == {CompetitorCountFull, CompetitorCountBare, CompetitorCountNested}

MembershipFull ==
    Node("Membership",
         <<Leaf("Id", "91"), Leaf("Year", "2024"),
           Node("Type", <<Leaf("Id", "1"), Leaf("Name", "Full")>>),
           Node("Person", <<Leaf("Id", "71"), Leaf("FirstName", "Kim"), Leaf("LastName", "Lee"),
                            Leaf("BirthDate", "1990-01-01"), Leaf("Sex", "F")>>),
           Leaf("PaidTime", "2024-01-15")>>)

MembershipBare == Node("Membership", <<Leaf("Id", "92")>>)

MembershipPartial ==
    Node("Membership",
         <<Leaf("Id", "93"), Empty("Year"), Node("Type", <<Empty("Name")>>),
           Node("Person", <<Leaf("Id", "72")>>)>>)

MembershipVariants == {MembershipFull, MembershipBare, MembershipPartial}

\* the Organisation nodes that precede the Membership nodes of a response
MembershipOrganisations ==
    {<<>>,
     <<Node("Organisation", <<Leaf("Id", "7"), Leaf("Name", "Acme"), Leaf("ShortName", "AC")>>)>>,
     <<Node("Organisation", <<Leaf("Id", "8")>>)>>,
     <<Node("Organisation", <<Leaf("Id", "7"), Leaf("Name", "Acme")>>),
       Node("Organisation", <<Leaf("Id", "9"), Leaf("Name", "Other")>>)>>}

\* the sequences of at most n elements of S
SeqsUpTo(S, n) == UNION {[1..k -> S] : k \in 0..n}

TreesOf(root, variants) == {Node(root, c) : c \in SeqsUpTo(variants, MaxNodes)}

EventTrees == TreesOf("EventList", EventVariants)
OrganisationTrees == TreesOf("OrganisationList", OrganisationVariants)
EventClassTrees == TreesOf("EventClassList", EventClassVariants)
EntryFeeTrees == TreesOf("EntryFeeList", EntryFeeVariants)
EntryTrees == TreesOf("EntryList", EntryVariants)
CompetitorCountTrees == TreesOf("CompetitorCountList", CompetitorCountVariants)
MembershipTrees ==
    {Node("MembershipList", o \o c) :
        o \in MembershipOrganisations, c \in SeqsUpTo(MembershipVariants, MaxNodes)}

Trees ==
    EventTrees \cup OrganisationTrees \cup EventClassTrees \cup EntryFeeTrees
      \cup EntryTrees \cup CompetitorCountTrees \cup MembershipTrees

\* the Discipline nodes an Event of a response carries
Discipline(id, name) == Node("Discipline", <<Leaf("DisciplineId", id), Leaf("Name", name)>>)

DisciplineLists ==
    {<<>>,
     <<Discipline("1", "Foot")>>,
     <<Discipline("2", "MTB")>>,
     <<Discipline("1", "Foot"), Discipline("2", "MTB")>>,
     <<Node("Discipline", <<Leaf("DisciplineId", "3")>>)>>,
     <<Node("Discipline", <<Empty("DisciplineId"), Leaf("Name", "Ski")>>)>>,
     <<Node("Related", <<Node("Event", <<Discipline("4", "Trail")>>)>>)>>}

DisciplineEvents == {Node("Event", <<Leaf("EventId", "101")>> \o d) : d \in DisciplineLists}

DisciplineTrees == {Node("EventList", c) : c \in SeqsUpTo(DisciplineEvents, MaxEvents)}

(***************************************************************************)
(* The answers of the server.                                              *)
(***************************************************************************)
WellFormed(tree) == [wellformed |-> TRUE, text |-> "<" \o tree.tag \o ">", tree |-> tree]
Malformed(txt) == [wellformed |-> FALSE, text |-> txt, tree |-> PyNone]

MalformedBodies == {Malformed(""), Malformed("<EventList><Event></EventList>")}

Statuses == {200, 304, 404, 500}

\* the answers to one GET: no answer at all, or a status and a body
ResponsesWith(bodies) ==
    {[kind |-> "ConnectionError", status |-> 0, body |-> Malformed("")]}
      \cup {[kind |-> "http", status |-> st, body |-> b] : st \in Statuses, b \in bodies}

\* the trees of the answers to the get_... operations
SampleTrees ==
    {Node("EventList", <<>>),
     Node("EventList", <<Node("Event", <<Leaf("EventId", "101"), Discipline("1", "Foot")>>),
                         Node("Event", <<Leaf("EventId", "102"), Discipline("1", "Foot"),
                                         Discipline("2", "MTB")>>)>>)}

SampleBodies == {WellFormed(t) : t \in SampleTrees} \cup MalformedBodies
DisciplineBodies == {WellFormed(t) : t \in DisciplineTrees} \cup MalformedBodies

(***************************************************************************)
(* The operations.                                                         *)
(***************************************************************************)
Init ==
    /\ call = NoOperation
    /\ response = NoResponse
    /\ request = NoRequest
    /\ gets = 0
    /\ log = <<>>
    /\ result = NoCall
    /\ table = NoTable
    /\ previous = NoTable

\* The client keeps nothing from one call to the next, so the model follows
\* one get_... call and the extractor calls on its result: a later call would
\* repeat the first.  Each get_... operation ends the way its _make_request
\* call ends.
Responses == ResponsesWith(SampleBodies)

get_events ==
    /\ result = NoCall
    /\ \E a \in get_events_args, resp \in Responses :
        LET out == make_request("events",
                                get_events_params(a.from_date, a.to_date,
                                                  a.classification_ids),
                                resp)
        IN  /\ call' = [op |-> "get_events", args |-> a]
            /\ response' = resp
            /\ request' = out.request
            /\ gets' = out.gets
            /\ log' = out.log
            /\ result' = out.result
            /\ table' = NoTable
            /\ previous' = NoTable

get_organizations ==
    /\ result = NoCall
    /\ \E resp \in Responses :
        LET out == make_request("organisations", PyNone, resp)
        IN  /\ call' = [op |-> "get_organizations", args |-> EmptyDict]
            /\ response' = resp
            /\ request' = out.request
            /\ gets' = out.gets
            /\ log' = out.log
            /\ result' = out.result
            /\ table' = NoTable
            /\ previous' = NoTable

get_event_classes ==
    /\ result = NoCall
    /\ \E event_id \in Ids, include_entry_fees \in BOOLEAN, resp \in Responses :
        LET out == make_request("eventclasses",
                                get_event_classes_params(PyInt(event_id),
                                                         PyBool(include_entry_fees)),
                                resp)
        IN  /\ call' = [op |-> "get_event_classes", args |-> [event_id |-> PyInt(event_id), include_entry_fees |-> PyBool(include_entry_fees)]]
            /\ response' = resp
            /\ request' = out.request
            /\ gets' = out.gets
            /\ log' = out.log
            /\ result' = out.result
            /\ table' = NoTable
            /\ previous' = NoTable

get_entryfees ==
    /\ result = NoCall
    /\ \E event_id \in Ids, resp \in Responses :
        LET out == make_request(get_entryfees_endpoint(PyInt(event_id)), PyNone, resp)
        IN  /\ call' = [op |-> "get_entryfees", args |-> [event_id |-> PyInt(event_id)]]
            /\ response' = resp
            /\ request' = out.request
            /\ gets' = out.gets
            /\ log' = out.log
            /\ result' = out.result
            /\ table' = NoTable
            /\ previous' = NoTable

get_entries ==
    /\ result = NoCall
    /\ \E a \in get_entries_args, resp \in Responses :
        LET out == make_request("entries", get_entries_params(a), resp)
        IN  /\ call' = [op |-> "get_entries", args |-> a]
            /\ response' = resp
            /\ request' = out.request
            /\ gets' = out.gets
            /\ log' = out.log
            /\ result' = out.result
            /\ table' = NoTable
            /\ previous' = NoTable

get_competitor_count ==
    /\ result = NoCall
    /\ \E a \in get_competitor_count_args, resp \in Responses :
        LET out == make_request("competitorcount",
                                get_competitor_count_params(a.organisation_ids,
                                                            a.event_ids, a.person_ids),
                                resp)
        IN  /\ call' = [op |-> "get_competitor_count", args |-> a]
            /\ response' = resp
            /\ request' = out.request
            /\ gets' = out.gets
            /\ log' = out.log
            /\ result' = out.result
            /\ table' = NoTable
            /\ previous' = NoTable

get_memberships ==
    /\ result = NoCall
    /\ \E organisation_id \in Ids, year \in Years,
          include_child_organisations \in BOOLEAN, include_contact_details \in BOOLEAN,
          resp \in Responses :
        LET out == make_request("memberships",
                                get_memberships_params(PyInt(organisation_id), PyInt(year),
                                                       PyBool(include_child_organisations),
                                                       PyBool(include_contact_details)),
                                resp)
        IN  /\ call' = [op |-> "get_memberships", args |-> [organisation_id |-> PyInt(organisation_id), year |-> PyInt(year),
                             include_child_organisations |-> PyBool(include_child_organisations),
                             include_contact_details |-> PyBool(include_contact_details)]]
            /\ response' = resp
            /\ request' = out.request
            /\ gets' = out.gets
            /\ log' = out.log
            /\ result' = out.result
            /\ table' = NoTable
            /\ previous' = NoTable

events_to_dataframe_call ==
    /\ result.kind = "return"
    /\ table' = events_to_dataframe(result.value)
    /\ previous' = table
    /\ UNCHANGED <<call, response, request, gets, log, result>>

organizations_to_dataframe_call ==
    /\ result.kind = "return"
    /\ table' = organizations_to_dataframe(result.value)
    /\ previous' = table
    /\ UNCHANGED <<call, response, request, gets, log, result>>

event_classes_to_dataframe_call ==
    /\ result.kind = "return"
    /\ table' = event_classes_to_dataframe(result.value)
    /\ previous' = table
    /\ UNCHANGED <<call, response, request, gets, log, result>>

entryfees_to_dataframe_call ==
    /\ result.kind = "return"
    /\ table' = entryfees_to_dataframe(result.value)
    /\ previous' = table
    /\ UNCHANGED <<call, response, request, gets, log, result>>

entries_to_dataframe_call ==
    /\ result.kind = "return"
    /\ table' = entries_to_dataframe(result.value)
    /\ previous' = table
    /\ UNCHANGED <<call, response, request, gets, log, result>>

competitor_count_to_dataframe_call ==
    /\ result.kind = "return"
    /\ table' = competitor_count_to_dataframe(result.value)
    /\ previous' = table
    /\ UNCHANGED <<call, response, request, gets, log, result>>

memberships_to_dataframe_call ==
    /\ result.kind = "return"
    /\ table' = memberships_to_dataframe(result.value)
    /\ previous' = table
    /\ UNCHANGED <<call, response, request, gets, log, result>>

\* extract_disciplines_from_events: get_events(from_date, to_date), then the
\* table of the disciplines of what it returned; an exception of get_events
\* passes through
extract_disciplines_from_events ==
    /\ result = NoCall
    /\ \E from_date \in {PyNone} \cup DateArgs, to_date \in {PyNone} \cup DateArgs,
          resp \in Responses :
        LET out == make_request("events", get_events_params(from_date, to_date, PyNone),
                                resp)
        IN  /\ call' = [op |-> "extract_disciplines_from_events", args |-> [from_date |-> from_date, to_date |-> to_date]]
            /\ response' = resp
            /\ request' = out.request
            /\ gets' = out.gets
            /\ log' = out.log
            /\ result' = out.result
            /\ IF out.result.kind = "raise"
               THEN table' = [kind |-> "raise", fn |-> "extract_disciplines_from_events",
                              exc |-> out.result.exc]
               ELSE table' \in extract_disciplines(out.result.value)
            /\ previous' = NoTable

\* the same operation, answered with any of the responses that carry
\* Discipline nodes
extract_disciplines_from_events_any ==
    /\ result = NoCall
    /\ \E from_date \in {PyNone} \cup DateArgs, to_date \in {PyNone} \cup DateArgs,
          resp \in ResponsesWith(DisciplineBodies) :
        LET out == make_request("events", get_events_params(from_date, to_date, PyNone),
                                resp)
        IN  /\ call' = [op |-> "extract_disciplines_from_events", args |-> [from_date |-> from_date, to_date |-> to_date]]
            /\ response' = resp
            /\ request' = out.request
            /\ gets' = out.gets
            /\ log' = out.log
            /\ result' = out.result
            /\ IF out.result.kind = "raise"
               THEN table' = [kind |-> "raise", fn |-> "extract_disciplines_from_events",
                              exc |-> out.result.exc]
               ELSE table' \in extract_disciplines(out.result.value)
            /\ previous' = NoTable

Next ==
    \/ get_events
    \/ get_organizations
    \/ get_event_classes
    \/ get_entryfees
    \/ get_entries
    \/ get_competitor_count
    \/ get_memberships
    \/ extract_disciplines_from_events

Spec == Init /\ [][Next]_vars

\* The extractors on every tree of the model: the states after a
\* get_organizations call that the server answered with that tree (or with a
\* malformed body), and the extractor calls from there.
InitExtract ==
    \E body \in {WellFormed(t) : t \in Trees} \cup MalformedBodies :
        LET resp == [kind |-> "http", status |-> 200, body |-> body]
            out == make_request("organisations", PyNone, resp)
        IN  /\ call = [op |-> "get_organizations", args |-> EmptyDict]
            /\ response = resp
            /\ request = out.request
            /\ gets = out.gets
            /\ log = out.log
            /\ result = out.result
            /\ table = NoTable
            /\ previous = NoTable

NextExtract ==
    \/ events_to_dataframe_call
    \/ organizations_to_dataframe_call
    \/ event_classes_to_dataframe_call
    \/ entryfees_to_dataframe_call
    \/ entries_to_dataframe_call
    \/ competitor_count_to_dataframe_call
    \/ memberships_to_dataframe_call

SpecExtract == InitExtract /\ [][NextExtract]_vars

\* extract_disciplines_from_events on every response of the model
NextDisciplines == extract_disciplines_from_events_any

SpecDisciplines == Init /\ [][NextDisciplines]_vars

(***************************************************************************)
(* Helpers of the properties: the nodes of a tree found by walking it      *)
(* directly, not through an ElementPath.                                   *)
(***************************************************************************)
\* the proper descendants of e with the given tag, in document order
RECURSIVE Tagged(_, _), TaggedIn(_, _)
Tagged(e, tag) == TaggedIn(e.children, tag)
TaggedIn(es, tag) ==
    IF es = <<>> THEN <<>>
    ELSE (IF Head(es).tag = tag THEN <<Head(es)>> ELSE <<>>)
           \o Tagged(Head(es), tag) \o TaggedIn(Tail(es), tag)

\* the descendants of e with the given tag that do not lie inside another
\* node of that tag, in document order
RECURSIVE TopLevel(_, _), TopLevelIn(_, _)
TopLevel(e, tag) == TopLevelIn(e.children, tag)
TopLevelIn(es, tag) ==
    IF es = <<>> THEN <<>>
    ELSE (IF Head(es).tag = tag THEN <<Head(es)>> ELSE TopLevel(Head(es), tag))
           \o TopLevelIn(Tail(es), tag)

\* the repeating tag of each extractor
TagOf(fn) ==
    CASE fn = "events_to_dataframe" -> "Event"
      [] fn = "organizations_to_dataframe" -> "Organisation"
      [] fn = "event_classes_to_dataframe" -> "EventClass"
      [] fn = "entryfees_to_dataframe" -> "EntryFee"
      [] fn = "entries_to_dataframe" -> "Entry"
      [] fn = "competitor_count_to_dataframe" -> "CompetitorCount"
      [] fn = "memberships_to_dataframe" -> "Membership"

\* an extractor has been applied to the sentinel / to a tree
GivenSentinel == result = Returns(PyNone) /\ table # NoTable
GivenTree == result.kind = "return" /\ result.value # PyNone /\ table # NoTable

(***************************************************************************)
(* C1.  Given the "no data" sentinel (None) that _make_request returns for *)
(* a malformed body, each of the seven extractors returns an empty table   *)
(* and does not raise.                                                     *)
(* The code does so only in events_to_dataframe: the other six call        *)
(* findall (or find) on None and raise AttributeError.                     *)
(***************************************************************************)
C1_SentinelGivesEmptyTable ==
    GivenSentinel => (table.kind = "return" /\ table.df.rows = <<>>)

(***************************************************************************)
(* C2.  On a well-formed parsed tree no extractor raises because an        *)
(* optional subtree, child or text is missing.                             *)
(* The code raises AttributeError for an Event whose Organiser has no      *)
(* OrganisationId, TypeError for a DisciplineId without text, and          *)
(* AttributeError for a memberships tree with no Organisation.             *)
(***************************************************************************)
C2_NoRaiseOnTree == GivenTree => table.kind = "return"

(***************************************************************************)
(* C3.  Every record an extractor emits has the same fixed set of field    *)
(* names, the one of a record built from a node with every group present,  *)
(* whichever optional groups its own node has.                             *)
(* The code leaves EventRaceDistance out of the record of an Event with no *)
(* EventRace.                                                              *)
(***************************************************************************)
FieldNames(fn) ==
    CASE fn = "events_to_dataframe" -> DOMAIN event_dict(EventFull)
      [] fn = "organizations_to_dataframe" -> DOMAIN org_dict(OrganisationFull)
      [] fn = "event_classes_to_dataframe" -> DOMAIN event_class_dict(EventClassFull)
      [] fn = "entryfees_to_dataframe" -> DOMAIN entry_fee_dict(EntryFeeFull)
      [] fn = "entries_to_dataframe" -> DOMAIN entry_dict(EntryFull)
      [] fn = "competitor_count_to_dataframe" -> DOMAIN competitor_count_dict(CompetitorCountFull)
      [] fn = "memberships_to_dataframe" ->
             DOMAIN membership_dict(MembershipFull, PyNone, PyNone, PyNone)

C3_FixedFieldNames ==
    (GivenTree /\ table.kind = "return") =>
        \A i \in 1..Len(table.records) :
            /\ "EventRaceDistance" \in FieldNames("events_to_dataframe")
            /\ DOMAIN table.records[i] = FieldNames(table.fn)

(***************************************************************************)
(* C4.  A field of a record is null if and only if the field's source path *)
(* is absent from the record's source node.  Stated for the records of     *)
(* events_to_dataframe, with the source path of each field.                *)
(* The code gives EventRaceName = '' for an Event with no EventRace (and   *)
(* for a race with no Name), DisciplineIds = '' for an Event with no       *)
(* DisciplineId.                                                           *)
(***************************************************************************)
Source(path, attr) == [path |-> path, attr |-> attr]

EventSources ==
    [EventId |-> Source(<<Child("EventId")>>, ""),
     Name |-> Source(<<Child("Name")>>, ""),
     StartDate |-> Source(<<Child("StartDate"), Child("Date")>>, ""),
     StartClock |-> Source(<<Child("StartDate"), Child("Clock")>>, ""),
     FinishDate |-> Source(<<Child("FinishDate"), Child("Date")>>, ""),
     FinishClock |-> Source(<<Child("FinishDate"), Child("Clock")>>, ""),
     EventClassificationId |-> Source(<<Child("EventClassificationId")>>, ""),
     EventStatusId |-> Source(<<Child("EventStatusId")>>, ""),
     OrganisationId |-> Source(<<Desc("Organiser"), Child("OrganisationId")>>, ""),
     WebURL |-> Source(<<Child("WebURL")>>, ""),
     PunchingUnitType |-> Source(<<Child("PunchingUnitType")>>, "value"),
     DisciplineIds |-> Source(<<Desc("DisciplineId")>>, ""),
     EventRaceDistance |-> Source(<<Desc("EventRace")>>, "raceDistance"),
     EventRaceId |-> Source(<<Desc("EventRace"), Child("EventRaceId")>>, ""),
     EventRaceName |-> Source(<<Desc("EventRace"), Child("Name")>>, ""),
     RaceDate |-> Source(<<Desc("EventRace"), Child("RaceDate"), Child("Date")>>, ""),
     RaceClock |-> Source(<<Desc("EventRace"), Child("RaceDate"), Child("Clock")>>, ""),
     EventCenterX |-> Source(<<Desc("EventRace"), Desc("EventCenterPosition")>>, "x"),
     EventCenterY |-> Source(<<Desc("EventRace"), Desc("EventCenterPosition")>>, "y"),
     EventCenterUnit |-> Source(<<Desc("EventRace"), Desc("EventCenterPosition")>>, "unit")]

\* the source is present in the node: the path leads to an element and, for
\* an attribute-valued field, that element has the attribute
Present(node, src) ==
    LET m == findall(node, src.path)
    IN  m # <<>> /\ (src.attr = "" \/ src.attr \in DOMAIN m[1].attrib)

C4_NullIffAbsent ==
    (GivenTree /\ table.kind = "return" /\ table.fn = "events_to_dataframe") =>
        \A i \in 1..Len(table.records) :
            \A f \in DOMAIN table.records[i] :
                (table.records[i][f] = PyNone)
                  <=> ~Present(Tagged(result.value, "Event")[i], EventSources[f])

(***************************************************************************)
(* C5.  When the GET succeeds with a 2xx status and the body is not        *)
(* well-formed XML, _make_request logs the failure with the body text and  *)
(* returns None without raising; a well-formed body never yields None.     *)
(***************************************************************************)
Status2xx ==
    response.kind = "http" /\ 200 <= response.status /\ response.status < 300

C5_ParseErrorGivesSentinel ==
    result # NoCall =>
        /\ (Status2xx /\ ~response.body.wellformed) =>
              /\ result = Returns(PyNone)
              /\ log = <<[level |-> "ERROR", msg |-> "XMLParseError",
                          text |-> response.body.text]>>
        /\ (response.kind = "http" /\ response.body.wellformed) =>
              result # Returns(PyNone)

C5_Witness ==
    /\ Status2xx
    /\ ~response.body.wellformed
    /\ response.body.text # ""
    /\ result = Returns(PyNone)
    /\ Len(log) = 1

(***************************************************************************)
(* C6 as claimed.  A transport failure, that is a connection error or a    *)
(* status that is not 2xx, always reaches the caller as an error, and each *)
(* get_... call issues exactly one GET.                                    *)
(* raise_for_status raises for 4xx and 5xx only: the body of a 304 answer  *)
(* is parsed and returned like that of a 200.                              *)
(***************************************************************************)
C6_Non2xxIsRaised ==
    result # NoCall =>
        /\ gets = 1
        /\ (response.kind = "ConnectionError" \/ ~Status2xx) => result.kind = "raise"

(***************************************************************************)
(* C6 as amended.  A connection error, or a 4xx or 5xx status, always      *)
(* reaches the caller as the exception it is, never as None or a tree, and *)
(* each get_... call issues exactly one GET whatever the outcome.          *)
(***************************************************************************)
StatusError ==
    response.kind = "http" /\ 400 <= response.status /\ response.status < 600

C6_TransportFailureIsRaised ==
    result # NoCall =>
        /\ gets = 1
        /\ response.kind = "ConnectionError" => result = PyRaise("ConnectionError")
        /\ StatusError => result = PyRaise("HTTPError")

C6_Witness ==
    /\ StatusError
    /\ result = PyRaise("HTTPError")
    /\ gets = 1
    /\ call.op = "get_entries"

(***************************************************************************)
(* C10.  In get_events and get_entries every supplied plain date D is sent *)
(* as "D 00:00:00" under the name of its from bound and as "D 23:59:59"    *)
(* under the name of its to bound, whatever the other arguments are.       *)
(***************************************************************************)
DateBound(ops, arg, param, suffix) ==
    [ops |-> ops, arg |-> arg, param |-> param, suffix |-> suffix]

DateBounds ==
    {DateBound({"get_events", "extract_disciplines_from_events"},
               "from_date", "fromDate", " 00:00:00"),
     DateBound({"get_events", "extract_disciplines_from_events"},
               "to_date", "toDate", " 23:59:59"),
     DateBound({"get_entries"}, "from_event_date", "fromEventDate", " 00:00:00"),
     DateBound({"get_entries"}, "to_event_date", "toEventDate", " 23:59:59"),
     DateBound({"get_entries"}, "from_entry_date", "fromEntryDate", " 00:00:00"),
     DateBound({"get_entries"}, "to_entry_date", "toEntryDate", " 23:59:59"),
     DateBound({"get_entries"}, "from_modify_date", "fromModifyDate", " 00:00:00"),
     DateBound({"get_entries"}, "to_modify_date", "toModifyDate", " 23:59:59")}

\* the argument is a plain date
Supplied(b) ==
    /\ call.op \in b.ops
    /\ call.args[b.arg].kind = "str"
    /\ call.args[b.arg].val \in Dates

C10_DateBounds ==
    \A b \in DateBounds :
        Supplied(b) =>
            /\ b.param \in DOMAIN request.params
            /\ request.params[b.param] = PyStr(call.args[b.arg].val \o b.suffix)

C10_Witness ==
    /\ call.op = "get_entries"
    /\ call.args.from_event_date = PyStr("2024-03-01")
    /\ call.args.to_modify_date = PyStr("2024-12-31")
    /\ request.params["fromEventDate"] = PyStr("2024-03-01 00:00:00")
    /\ request.params["toModifyDate"] = PyStr("2024-12-31 23:59:59")

(***************************************************************************)
(* C7.  memberships_to_dataframe reads Id, Name and ShortName once, from   *)
(* one Organisation node (the first of the tree), and every record it      *)
(* emits carries these three values as OrganisationId, OrganisationName    *)
(* and OrganisationShortName.                                              *)
(***************************************************************************)
C7_OrganisationOnEveryRecord ==
    (GivenTree /\ table.kind = "return" /\ table.fn = "memberships_to_dataframe") =>
        LET orgs == Tagged(result.value, "Organisation")
        IN  /\ orgs # <<>>
            /\ \A i \in 1..Len(table.records) :
                  /\ table.records[i].OrganisationId = findtext(orgs[1], <<Child("Id")>>)
                  /\ table.records[i].OrganisationName = findtext(orgs[1], <<Child("Name")>>)
                  /\ table.records[i].OrganisationShortName =
                         findtext(orgs[1], <<Child("ShortName")>>)

\* one Organisation (Id=7, Name="Acme") followed by another, and two
\* Membership nodes: two records, both with the values of the first
C7_Witness ==
    /\ GivenTree
    /\ table.kind = "return"
    /\ table.fn = "memberships_to_dataframe"
    /\ Len(Tagged(result.value, "Organisation")) = 2
    /\ Len(Tagged(result.value, "Membership")) = 2
    /\ Len(table.records) = 2
    /\ \A i \in 1..2 : /\ table.records[i].OrganisationId = PyStr("7")
                       /\ table.records[i].OrganisationName = PyStr("Acme")

(***************************************************************************)
(* C8 as claimed.  The rows of the table extract_disciplines_from_events   *)
(* returns are exactly the distinct (DisciplineId, Name) pairs of all the  *)
(* Discipline nodes of all the events of the response, each once.          *)
(* The code drops every pair whose id or name is missing or empty.         *)
(***************************************************************************)
\* the pairs of the Discipline nodes below the Event nodes of a tree
ObservedPairs(tree) ==
    LET events == Tagged(tree, "Event")
    IN  UNION {{discipline_pair(Tagged(events[i], "Discipline")[j]) :
                   j \in 1..Len(Tagged(events[i], "Discipline"))} : i \in 1..Len(events)}

RowPairs == {<<table.df.rows[i].DisciplineId, table.df.rows[i].Name>> :
                i \in 1..Len(table.df.rows)}

DisciplinesReturned ==
    table.kind = "return" /\ table.fn = "extract_disciplines_from_events"

C8_RowsAreObservedPairs ==
    DisciplinesReturned =>
        /\ RowPairs = ObservedPairs(result.value)
        /\ Len(table.df.rows) = Cardinality(RowPairs)

(***************************************************************************)
(* C8 as amended.  Whenever extract_disciplines_from_events returns a      *)
(* table, its rows are exactly the distinct (DisciplineId, Name) pairs,    *)
(* among those of the Discipline nodes of the events of the response,      *)
(* whose id and name are both present and non-empty, each once.            *)
(***************************************************************************)
NonEmptyStr(v) == v.kind = "str" /\ v.val # ""

C8_RowsAreCompletePairs ==
    DisciplinesReturned =>
        /\ RowPairs = {p \in ObservedPairs(result.value) :
                          NonEmptyStr(p[1]) /\ NonEmptyStr(p[2])}
        /\ Len(table.df.rows) = Cardinality(RowPairs)
        /\ table.df.columns = {"DisciplineId", "Name"}

\* two events sharing the pair (1, Foot) and one event with (2, MTB): two rows
C8_Witness ==
    /\ DisciplinesReturned
    /\ result.value =
         Node("EventList",
              <<Node("Event", <<Leaf("EventId", "101"), Discipline("1", "Foot")>>),
                Node("Event", <<Leaf("EventId", "101"), Discipline("1", "Foot")>>),
                Node("Event", <<Leaf("EventId", "101"), Discipline("2", "MTB")>>)>>)
    /\ Len(table.df.rows) = 2
    /\ RowPairs = {<<PyStr("1"), PyStr("Foot")>>, <<PyStr("2"), PyStr("MTB")>>}

(***************************************************************************)
(* C9 as claimed.  The table of an extractor has exactly one record per    *)
(* top-level node of the repeating tag, nodes of that tag nested inside    *)
(* another such node giving no record, the i-th record built from the i-th *)
(* such node.                                                              *)
(* findall('.//Tag') matches at every depth: a nested node gives a record. *)
(***************************************************************************)
\* the dict the extractor fn builds from a node; r is the record compared,
\* which supplies the organisation values of a memberships dict
BuiltFrom(fn, node, r) ==
    CASE fn = "events_to_dataframe" -> event_dict(node)
      [] fn = "organizations_to_dataframe" -> org_dict(node)
      [] fn = "event_classes_to_dataframe" -> event_class_dict(node)
      [] fn = "entryfees_to_dataframe" -> entry_fee_dict(node)
      [] fn = "entries_to_dataframe" -> entry_dict(node)
      [] fn = "competitor_count_to_dataframe" -> competitor_count_dict(node)
      [] fn = "memberships_to_dataframe" ->
             membership_dict(node, r.OrganisationId, r.OrganisationName,
                             r.OrganisationShortName)

OneRecordPer(nodes) ==
    /\ Len(table.records) = Len(nodes)
    /\ Len(table.df.rows) = Len(nodes)
    /\ \A i \in 1..Len(nodes) :
          table.records[i] = BuiltFrom(table.fn, nodes[i], table.records[i])

C9_OneRecordPerTopLevelNode ==
    (GivenTree /\ table.kind = "return") =>
        OneRecordPer(TopLevel(result.value, TagOf(table.fn)))

(***************************************************************************)
(* C9 as amended.  Whenever an extractor returns a table for a tree, the   *)
(* table has exactly one record per node of the repeating tag at any depth *)
(* below the root, nested ones included, and the i-th record is built from *)
(* the i-th such node in document order.                                   *)
(***************************************************************************)
C9_OneRecordPerNode ==
    (GivenTree /\ table.kind = "return") =>
        OneRecordPer(Tagged(result.value, TagOf(table.fn)))

\* three records from two top-level nodes, one of which holds a nested node
C9_Witness ==
    /\ GivenTree
    /\ table.kind = "return"
    /\ Len(TopLevel(result.value, TagOf(table.fn))) = 2
    /\ Len(table.records) = 3
    /\ table.records[1] # table.records[2]
    /\ table.records[2] # table.records[3]

(***************************************************************************)
(* C11.  In get_events, get_entries and get_competitor_count a list of two *)
(* or more IDs is sent as one string value: split at its commas it gives   *)
(* as many tokens as the list has elements, and the i-th token is the      *)
(* decimal form of the i-th element (same elements, same order, none       *)
(* dropped, none merged).                                                  *)
(***************************************************************************)
ListParam(op, arg, param) == [op |-> op, arg |-> arg, param |-> param]

ListParams ==
    {ListParam("get_events", "classification_ids", "classificationIds"),
     ListParam("get_entries", "organisation_ids", "organisationIds"),
     ListParam("get_entries", "event_ids", "eventIds"),
     ListParam("get_entries", "event_class_ids", "eventClassIds"),
     ListParam("get_competitor_count", "organisation_ids", "organisationIds"),
     ListParam("get_competitor_count", "event_ids", "eventIds"),
     ListParam("get_competitor_count", "person_ids", "personIds")}

\* the character of s at position k
CharAt(s, k) == SubSeq(s, k, k)

\* the tokens of s between its commas
RECURSIVE SplitCommas(_)
SplitCommas(s) ==
    IF \A k \in 1..Len(s) : CharAt(s, k) # "," THEN <<s>>
    ELSE LET k == CHOOSE j \in 1..Len(s) :
                      /\ CharAt(s, j) = ","
                      /\ \A h \in 1..(j - 1) : CharAt(s, h) # ","
         IN  <<SubSeq(s, 1, k - 1)>> \o SplitCommas(SubSeq(s, k + 1, Len(s)))

IsDigit(c) == \E d \in 1..10 : Digits[d] = c

DigitValue(c) == (CHOOSE d \in 1..10 : Digits[d] = c) - 1

\* the number a string of digits denotes
RECURSIVE DecimalValue(_)
DecimalValue(tok) ==
    IF tok = "" THEN 0
    ELSE DecimalValue(SubSeq(tok, 1, Len(tok) - 1)) * 10
             + DigitValue(CharAt(tok, Len(tok)))

\* tok is the decimal form of the natural number n
IsDecimalOf(tok, n) ==
    /\ tok # ""
    /\ \A k \in 1..Len(tok) : IsDigit(CharAt(tok, k))
    /\ Len(tok) > 1 => CharAt(tok, 1) # "0"
    /\ DecimalValue(tok) = n

\* the call passed a list of two or more IDs as the argument of p
MultiElement(p) ==
    /\ call.op = p.op
    /\ call.args[p.arg].kind = "list"
    /\ Len(call.args[p.arg].val) >= 2

C11_ListsAreCommaJoined ==
    \A p \in ListParams :
        MultiElement(p) =>
            /\ p.param \in DOMAIN request.params
            /\ request.params[p.param].kind = "str"
            /\ LET ids == call.args[p.arg].val
                   toks == SplitCommas(request.params[p.param].val)
               IN  /\ Len(toks) = Len(ids)
                   /\ \A i \in 1..Len(ids) : IsDecimalOf(toks[i], ids[i])

C11_Witness ==
    /\ call.op = "get_competitor_count"
    /\ call.args.event_ids = PyList(<<12, 3, 7>>)
    /\ call.args.person_ids = PyList(<<12, 12>>)
    /\ request.params["eventIds"] = PyStr("12,3,7")
    /\ request.params["personIds"] = PyStr("12,12")

(***************************************************************************)
(* C12.  In get_event_classes, get_entries and get_memberships every       *)
(* boolean parameter (includeEntryFees, includePersonElement,              *)
(* includeOrganisationElement, includeEventElement,                        *)
(* includeChildOrganisations, includeContactDetails) is in the request     *)
(* parameters as the literal token true or false: its text is "true" when  *)
(* the argument is True and "false" when it is False.                      *)
(***************************************************************************)
BoolParam(op, arg, param) == [op |-> op, arg |-> arg, param |-> param]

BoolParams ==
    {BoolParam("get_event_classes", "include_entry_fees", "includeEntryFees"),
     BoolParam("get_entries", "include_entry_fees", "includeEntryFees"),
     BoolParam("get_entries", "include_person_element", "includePersonElement"),
     BoolParam("get_entries", "include_organisation_element",
               "includeOrganisationElement"),
     BoolParam("get_entries", "include_event_element", "includeEventElement"),
     BoolParam("get_memberships", "include_child_organisations",
               "includeChildOrganisations"),
     BoolParam("get_memberships", "include_contact_details", "includeContactDetails")}

\* the text of a parameter value, str(v): a str is its own text, an int its
\* decimal form, a bool the word True or False
TextOf(v) ==
    CASE v.kind = "str" -> v.val
      [] v.kind = "int" -> IntToStr(v.val)
      [] v.kind = "bool" -> IF v.val THEN "True" ELSE "False"
      [] OTHER -> "None"

C12_BooleansAreTokens ==
    \A p \in BoolParams :
        call.op = p.op =>
            /\ p.param \in DOMAIN request.params
            /\ TextOf(request.params[p.param]) =
                   (IF call.args[p.arg].val THEN "true" ELSE "false")

(***************************************************************************)
(* C13.  Running an extractor twice on the same parsed tree yields         *)
(* identical tables: when the last two extractor calls were calls of the   *)
(* same extractor on the tree of the state, the second ended exactly as    *)
(* the first (same records, same field values, same order, same columns).  *)
(***************************************************************************)
RanTwice ==
    /\ GivenTree
    /\ previous # NoTable
    /\ previous.fn = table.fn

NonEmptyArg(v) ==
    \/ v.kind = "list" /\ Len(v.val) > 0
    \/ v.kind = "str" /\ v.val # ""

\* the list and date filters of get_events and get_entries
Filters ==
    {[ops |-> {p.op}, arg |-> p.arg, param |-> p.param] :
         p \in {q \in ListParams : q.op \in {"get_events", "get_entries"}}}
    \cup {[ops |-> b.ops, arg |-> b.arg, param |-> b.param] : b \in DateBounds}

InclusionFlags ==
    {"includeEntryFees", "includePersonElement", "includeOrganisationElement",
     "includeEventElement"}

C14_ParameterPresence ==
    /\ \A f \in Filters :
           call.op \in f.ops =>
               (f.param \in DOMAIN request.params <=> NonEmptyArg(call.args[f.arg]))
    /\ call.op = "get_entries" => InclusionFlags \subseteq DOMAIN request.params
    /\ \A p \in ListParams :
           call.op = "get_competitor_count" /\ p.op = call.op =>
               /\ p.param \in DOMAIN request.params <=> call.args[p.arg] # PyNone
               /\ call.args[p.arg] = PyList(<<>>) =>
                      request.params[p.param] = PyStr("")

C14_Witness ==
    /\ call.op = "get_entries"
    /\ call.args.event_ids = PyList(<<>>)
    /\ call.args.from_entry_date = PyStr("")
    /\ DOMAIN request.params = InclusionFlags

=============================================================================
